---- MODULE Spec2Model ----
(***************************************************************************)
(* The two notebooks of the repository as state machines.                  *)
(*                                                                         *)
(*   LSA.ipynb            38 code cells: tokenize -> dictionary -> bag of  *)
(*                        words -> TF-IDF -> LSI -> similarity index ->    *)
(*                        query -> sort, with four artifacts saved to and  *)
(*                        loaded from the working directory.               *)
(*   20-newsgroups        13 code cells: fetch -> vectorize -> fit four    *)
(*   (src/unnamed/        topic models -> transform / argmax -> score ->   *)
(*    part_000)           print.                                           *)
(*                                                                         *)
(* The namespace of a notebook's kernel is a function from the names that  *)
(* are bound to their values (lsa_ns, news_ns): a Python variable keeps    *)
(* its name.  Each code cell is one action.                                *)
(*                                                                         *)
(* Numbers.  A Python int is an integer.  A Python float is kept in fixed  *)
(* point, as an integer number of thousandths (1.0 is 1000).  A sparse     *)
(* vector is a record [space, dtype, items] where items is the Python list *)
(* of (id, value) pairs, dtype says whether the values are ints or floats  *)
(* and space names the vector space the values live in.                    *)
(***************************************************************************)
EXTENDS Integers, Sequences, FiniteSets, TLC

----------------------------------------------------------------------------
(* Bounds of the model.                                                    *)

\* longest query handed to doc2bow in the vectorizer harness
MaxQueryLen == 2
\* most documents of a small corpus in the vectorizer harness
MaxDocs == 5
\* most samples of a labelling in the score harness, and its largest label
MaxSamples == 4
MaxLabel == 1
\* most rows of a matrix in the argmax harness, and its largest entry
MaxRows == 2
MaxWeight == 1
\* most similarities of a query in the ranking harness, and the largest
\* similarity (in thousandths, of either sign)
MaxSims == 4
MaxSim == 1
\* most documents of a corpus in the tokenization harness
MaxTkDocs == 3

----------------------------------------------------------------------------
(* Generic helpers.                                                        *)

Range(s) == {s[i] : i \in DOMAIN s}

Min(a, b) == IF a <= b THEN a ELSE b

Abs(x) == IF x < 0 THEN -x ELSE x

RECURSIVE SumSeq(_)
SumSeq(s) == IF s = <<>> THEN 0 ELSE Head(s) + SumSeq(Tail(s))

RECURSIVE Concat(_)
\* sum(texts, []) : the concatenation of a list of lists
Concat(ss) == IF ss = <<>> THEN <<>> ELSE Head(ss) \o Concat(Tail(ss))

\* the elements of s whose flag is set, in order (a filtering comprehension)
Kept(s, flags) ==
    LET kept == {i \in DOMAIN s : flags[i]}
    IN  [k \in 1..Cardinality(kept) |->
            s[CHOOSE i \in kept : Cardinality({j \in kept : j < i}) = k - 1]]

\* sequences over S of length at most n
SeqsUpTo(S, n) == UNION {[1..k -> S] : k \in 0..n}

\* fixed-point scale of a float: thousandths
FP == 10 * 10 * 10

\* integer division rounding to nearest, for either sign of a (b > 0)
RoundDiv(a, b) == IF a >= 0 THEN (2 * a + b) \div (2 * b)
                  ELSE -((2 * (-a) + b) \div (2 * b))

RECURSIVE ISqrtFrom(_, _)
ISqrtFrom(n, r) == IF r <= n \div r THEN r ELSE ISqrtFrom(n, (r + n \div r) \div 2)
\* floor of the square root (Newton's iteration from above)
ISqrt(n) == IF n <= 1 THEN n ELSE ISqrtFrom(n, n \div 2 + 1)

----------------------------------------------------------------------------
(* Words.  Python compares and sorts str by code point; every token that   *)
(* reaches a sort is lower case, so the order is the alphabetical one.     *)
(* Alphabet lists every lower-case word of the model in that order.        *)

Alphabet ==
    << "a", "and", "applications", "binary", "computer", "engineering",
       "eps", "error", "for", "generation", "god", "graph", "human", "in",
       "interaction", "interface", "intersection", "iv", "lab", "machine",
       "management", "measurement", "minors", "of", "opinion", "ordering",
       "paths", "perceived", "quasi", "random", "relation", "response",
       "space", "survey", "system", "testing", "the", "time", "to", "trees",
       "unordered", "user", "well", "widths" >>

\* sorted(S) for a set of lower-case words
SortWords(S) == Kept(Alphabet, [i \in DOMAIN Alphabet |-> Alphabet[i] \in S])

\* the words of the model that are not all lower case, with str.lower()
LowerTable ==
    [w \in {"Human", "A", "The", "EPS", "System", "Relation", "Graph", "IV",
            "Widths"} |->
        CASE w = "Human" -> "human"
          [] w = "A" -> "a"
          [] w = "The" -> "the"
          [] w = "EPS" -> "eps"
          [] w = "System" -> "system"
          [] w = "Relation" -> "relation"
          [] w = "Graph" -> "graph"
          [] w = "IV" -> "iv"
          [] w = "Widths" -> "widths"]

\* str.lower() of one piece of a string (a word, or the blank " ")
LowerWord(w) == IF w \in DOMAIN LowerTable THEN LowerTable[w] ELSE w

(* A Python str is a sequence of pieces: words, and " " for a run of       *)
(* whitespace.                                                             *)
RECURSIVE Text(_)
\* the string whose words are ws, single blanks between them
Text(ws) == IF Len(ws) <= 1 THEN ws
            ELSE <<Head(ws), " ">> \o Text(Tail(ws))

\* str.lower()
Lower(s) == [i \in DOMAIN s |-> LowerWord(s[i])]

\* str.split() with no argument: the words between runs of whitespace
Split(s) == Kept(s, [i \in DOMAIN s |-> s[i] # " "])

----------------------------------------------------------------------------
(* LSA.ipynb: the corpus and its tokenization (cells 2 to 9).              *)

\* documents, cell 2
DeerwesterDocuments ==
    << Text(<<"Human", "machine", "interface", "for", "lab", "computer",
              "applications">>),
       Text(<<"A", "survey", "of", "user", "opinion", "of", "computer",
              "system", "response", "time">>),
       Text(<<"The", "EPS", "user", "interface", "management", "system">>),
       Text(<<"System", "and", "human", "system", "engineering", "testing",
              "of", "EPS">>),
       Text(<<"Relation", "of", "user", "perceived", "response", "time",
              "to", "error", "measurement">>),
       Text(<<"The", "generation", "of", "random", "binary", "unordered",
              "trees">>),
       Text(<<"The", "intersection", "graph", "of", "paths", "in", "trees">>),
       Text(<<"Graph", "minors", "IV", "Widths", "of", "trees", "and",
              "well", "quasi", "ordering">>),
       Text(<<"Graph", "minors", "A", "survey">>) >>

\* stoplist = set('for a of the and to in'.split()), cell 4
Stoplist == Range(Split(Text(<<"for", "a", "of", "the", "and", "to", "in">>)))

\* the comprehension without .lower(): document.split()
TokenizeCaseSensitive(docs, stop) ==
    [i \in DOMAIN docs |->
        LET words == Split(docs[i])
        IN  Kept(words, [k \in DOMAIN words |-> words[k] \notin stop])]

\* [[word for word in document.lower().split() if word not in stoplist]
\*  for document in documents], cell 5
Tokenize(docs, stop) ==
    [i \in DOMAIN docs |->
        LET words == Split(Lower(docs[i]))
        IN  Kept(words, [k \in DOMAIN words |-> words[k] \notin stop])]

\* list.count(word)
ListCount(list, word) == Cardinality({i \in DOMAIN list : list[i] = word})

\* the set with the test all_tokens.count(word) <= 2
TokensUpToTwice(tokens) == {word \in Range(tokens) : ListCount(tokens, word) <= 2}

\* set(word for word in set(all_tokens) if all_tokens.count(word) == 1), cell 8
TokensOnce(tokens) == {word \in Range(tokens) : ListCount(tokens, word) = 1}

\* [[word for word in text if word not in tokens_once] for text in texts], cell 9
RemoveOnce(txts, once) ==
    [i \in DOMAIN txts |-> Kept(txts[i], [k \in DOMAIN txts[i] |-> txts[i][k] \notin once])]

\* texts as cell 9 leaves it for the documents of cell 2
DeerwesterTexts ==
    LET t == Tokenize(DeerwesterDocuments, Stoplist)
    IN  RemoveOnce(t, TokensOnce(Concat(t)))

----------------------------------------------------------------------------
(* gensim.corpora.Dictionary as the notebook uses it: Dictionary(texts)    *)
(* and dictionary.doc2bow(tokens).                                         *)

\* a Dictionary before any document is added
EmptyDictionary ==
    [token2id |-> <<>>, dfs |-> <<>>, num_docs |-> 0, num_pos |-> 0,
     num_nnz |-> 0]

\* the frequency doc2bow records for a token of the document
TokenPresent(document, w) == 1
TokenCount(document, w) == ListCount(document, w)

\* for w in missing: token2id[w] = len(token2id): the k-th missing token
\* gets the k-th id after those in use
AssignIds(token2id, missing) ==
    [w \in (DOMAIN token2id) \cup Range(missing) |->
        IF w \in DOMAIN token2id THEN token2id[w]
        ELSE Cardinality(DOMAIN token2id)
             + (CHOOSE k \in DOMAIN missing : missing[k] = w) - 1]

\* sorted(result.items()) for a set of (id, value) pairs with distinct ids
SortPairs(S) ==
    [k \in 1..Cardinality(S) |->
        CHOOSE p \in S : Cardinality({q \in S : q[1] < p[1]}) = k - 1]

\* a bag-of-words vector with int counts
BowVec(items) == [space |-> "bow", dtype |-> "int", items |-> items]

(* Dictionary.doc2bow(document, allow_update): the pair of the dictionary  *)
(* after the call and the list returned.  Tokens are counted; with         *)
(* allow_update the tokens not yet known get the next ids, in sorted       *)
(* order, and the document statistics are updated; the result holds one    *)
(* (id, count) per known token of the document, sorted by id.              *)
doc2bow(dict, document, allow_update) ==
    LET counter == [w \in Range(document) |-> TokenCount(document, w)]
        missing == SortWords({w \in DOMAIN counter : w \notin DOMAIN dict.token2id})
        token2id == IF allow_update THEN AssignIds(dict.token2id, missing)
                    ELSE dict.token2id
        result == {<<token2id[w], counter[w]>> :
                      w \in (DOMAIN counter) \cap (DOMAIN token2id)}
        ids == {p[1] : p \in result}
        dfs == [t \in (DOMAIN dict.dfs) \cup ids |->
                   (IF t \in DOMAIN dict.dfs THEN dict.dfs[t] ELSE 0)
                   + (IF t \in ids THEN 1 ELSE 0)]
        after == IF allow_update
                 THEN [token2id |-> token2id, dfs |-> dfs,
                       num_docs |-> dict.num_docs + 1,
                       num_pos |-> dict.num_pos + Len(document),
                       num_nnz |-> dict.num_nnz + Cardinality(result)]
                 ELSE dict
    IN  [dictionary |-> after, bow |-> BowVec(SortPairs(result))]

RECURSIVE add_documents(_, _)
\* Dictionary.add_documents: doc2bow(document, allow_update=True) per
\* document.  The loop is a recursion on the rest of the documents; after
\* is bound to the dictionary the call leaves before the next document is
\* read.
add_documents(dict, txts) ==
    IF txts = <<>> THEN dict
    ELSE CHOOSE result \in
            {add_documents(after, Tail(txts)) :
                after \in {doc2bow(dict, Head(txts), TRUE).dictionary}} : TRUE

\* corpora.Dictionary(texts), cell 10
Dictionary(txts) == add_documents(EmptyDictionary, txts)

\* a query that registers its tokens: doc2bow(tokens, allow_update=True)
QueryBowUpdating(dict, tokens) == doc2bow(dict, tokens, TRUE)
\* dictionary.doc2bow(tokens) as cells 14, 15 and 30 call it: allow_update
\* is left at its default, False
QueryBow(dict, tokens) == doc2bow(dict, tokens, FALSE)

RECURSIVE BowCorpus(_, _)
\* [dictionary.doc2bow(text) for text in texts], cell 15: the dictionary
\* after the calls and the list of their results
BowCorpus(dict, txts) ==
    IF txts = <<>> THEN [dictionary |-> dict, docs |-> <<>>]
    ELSE CHOOSE result \in
            {LET rest == BowCorpus(r.dictionary, Tail(txts))
             IN  [dictionary |-> rest.dictionary, docs |-> <<r.bow>> \o rest.docs] :
                r \in {QueryBow(dict, Head(txts))}} : TRUE

----------------------------------------------------------------------------
(* Files of the working directory.  A file is a record; files maps a file  *)
(* name to its content.                                                    *)

\* what a writer leaves in the directory when it writes nothing
FileWriteLost(fs, name, content) == fs
\* the directory after name is (over)written with content
FileWrite(fs, name, content) ==
    [n \in (DOMAIN fs) \cup {name} |-> IF n = name THEN content ELSE fs[n]]

(* gensim.utils.SaveLoad.save / load: the object's attributes are pickled, *)
(* those named in ignore left out; load gives back an object with the      *)
(* attributes of the file.                                                 *)
Pickle(cls, obj, ignore) ==
    [format |-> "pickle", cls |-> cls,
     state |-> [a \in (DOMAIN obj) \ ignore |-> obj[a]]]

Unpickle(file) == file.state

\* Dictionary.save_as_text: num_docs, then "id<TAB>token<TAB>df" per token,
\* sorted by token
DictionaryText(dict) ==
    LET ws == SortWords(DOMAIN dict.token2id)
    IN  [format |-> "text", num_docs |-> dict.num_docs,
         lines |-> [i \in DOMAIN ws |->
                       <<dict.token2id[ws[i]], ws[i],
                         dict.dfs[dict.token2id[ws[i]]]>>]]

----------------------------------------------------------------------------
(* gensim.corpora.MmCorpus: the Matrix Market file of a corpus.            *)

\* a corpus held as a Python list of vectors
ListCorpus(docs) == [kind |-> "list", docs |-> docs]

RECURSIVE MmLines(_, _)
\* MmWriter.write_vector per document: one line "docno+1 termid+1 value"
\* per entry; the value is written with %s, so an int 1 is the text "1"
MmLines(docs, docno) ==
    IF docs = <<>> THEN <<>>
    ELSE LET v == Head(docs)
         IN  [k \in DOMAIN v.items |->
                 [doc |-> docno + 1, term |-> v.items[k][1] + 1,
                  dtype |-> v.dtype, text |-> v.items[k][2]]]
             \o MmLines(Tail(docs), docno + 1)

\* MmCorpus.serialize(fname, corpus): header "num_docs num_terms num_nnz",
\* then the lines
MmSerialize(c) ==
    LET lines == MmLines(c.docs, 0)
        terms == {lines[k].term : k \in DOMAIN lines}
    IN  [format |-> "mm", num_docs |-> Len(c.docs),
         num_terms |-> IF terms = {} THEN 0
                       ELSE CHOOSE t \in terms : \A u \in terms : u <= t,
         num_nnz |-> Len(lines), lines |-> lines]

\* float(text) of a value of the file
ParseFloat(dtype, text) == IF dtype = "int" THEN text * FP ELSE text

\* a reader that keeps the term numbers of the file, which count from 1
MmCorpusOneBased(file) ==
    [kind |-> "MmCorpus", num_docs |-> file.num_docs,
     num_terms |-> file.num_terms, num_nnz |-> file.num_nnz,
     docs |-> [d \in 1..file.num_docs |->
                 LET mine == Kept(file.lines, [k \in DOMAIN file.lines |-> file.lines[k].doc = d])
                 IN  [space |-> "bow", dtype |-> "float",
                      items |-> [k \in DOMAIN mine |->
                                   <<mine[k].term,
                                     ParseFloat(mine[k].dtype, mine[k].text)>>]]]]

\* MmCorpus(fname): the documents are read back in file order, one list of
\* (termid, float) per document number 1..num_docs, empty when the file
\* holds no line for it
MmCorpus(file) ==
    [kind |-> "MmCorpus", num_docs |-> file.num_docs,
     num_terms |-> file.num_terms, num_nnz |-> file.num_nnz,
     docs |-> [d \in 1..file.num_docs |->
                 LET mine == Kept(file.lines, [k \in DOMAIN file.lines |-> file.lines[k].doc = d])
                 IN  [space |-> "bow", dtype |-> "float",
                      items |-> [k \in DOMAIN mine |->
                                   <<mine[k].term - 1,
                                     ParseFloat(mine[k].dtype, mine[k].text)>>]]]]

\* the value of an entry in thousandths, whatever the vector's dtype
Milli(v, k) == IF v.dtype = "int" THEN v.items[k][2] * FP ELSE v.items[k][2]

----------------------------------------------------------------------------
(* gensim.models.TfidfModel: idf = log2(num_docs / df), weight = tf * idf, *)
(* the vector scaled to unit length, zero weights dropped.                 *)

\* 2^14: the fixed-point unit of the logarithm's argument
LogUnit == 128 * 128

RECURSIVE Pow2(_)
Pow2(k) == IF k = 0 THEN 1 ELSE 2 * Pow2(k - 1)

RECURSIVE Log2Int(_, _)
\* the largest k with den * 2^k <= num
Log2Int(num, den) == IF 2 * den > num THEN 0 ELSE 1 + Log2Int(num, 2 * den)

RECURSIVE Log2Frac(_, _)
\* the next `bits` binary digits of log2(x / LogUnit), 1 <= x / LogUnit < 2,
\* as a number of 2^-bits
Log2Frac(x, bits) ==
    IF bits = 0 THEN 0
    ELSE LET sq == (x * x) \div LogUnit
         IN  IF sq >= 2 * LogUnit
             THEN Pow2(bits - 1) + Log2Frac(sq \div 2, bits - 1)
             ELSE Log2Frac(sq, bits - 1)

\* log2(num / den) in thousandths, for num >= den >= 1
Log2Milli(num, den) ==
    LET k == Log2Int(num, den)
        x == (num * LogUnit) \div (den * Pow2(k))
    IN  k * FP + RoundDiv(Log2Frac(x, 10) * FP, Pow2(10))

\* matutils.unitvec of a list of (id, thousandths): unit Euclidean length;
\* a zero vector is returned unchanged
UnitItems(items) ==
    LET norm == ISqrt(SumSeq([k \in DOMAIN items |-> items[k][2] * items[k][2]]))
    IN  IF norm = 0 THEN items
        ELSE [k \in DOMAIN items |->
                 <<items[k][1], RoundDiv(items[k][2] * FP, norm)>>]

\* TfidfModel(corpus): document frequencies and idfs of the corpus
TfidfModel(c) ==
    LET ids == UNION {{c.docs[d].items[k][1] : k \in DOMAIN c.docs[d].items} :
                         d \in DOMAIN c.docs}
        df(t) == Cardinality({d \in DOMAIN c.docs :
                     \E k \in DOMAIN c.docs[d].items : c.docs[d].items[k][1] = t})
    IN  [num_docs |-> Len(c.docs),
         num_nnz |-> SumSeq([d \in DOMAIN c.docs |-> Len(c.docs[d].items)]),
         dfs |-> [t \in ids |-> df(t)],
         idfs |-> [t \in ids |-> Log2Milli(Len(c.docs), df(t))]]

\* tfidf[bow]
TfidfApply(model, v) ==
    LET known == Kept([k \in DOMAIN v.items |-> <<v.items[k][1], Milli(v, k)>>],
                      [k \in DOMAIN v.items |->
                          /\ v.items[k][1] \in DOMAIN model.idfs
                          /\ model.idfs[v.items[k][1]] # 0])
        weighted == [k \in DOMAIN known |->
                        <<known[k][1], RoundDiv(known[k][2] * model.idfs[known[k][1]], FP)>>]
    IN  [space |-> "tfidf", dtype |-> "float",
         items |-> LET unit == UnitItems(weighted)
                   IN  Kept(unit, [k \in DOMAIN unit |-> unit[k][2] # 0])]

\* tfidf[corpus]: the corpus seen through the model, document by document
TfidfCorpus(model, c) ==
    [kind |-> "TransformedCorpus",
     docs |-> [d \in DOMAIN c.docs |-> TfidfApply(model, c.docs[d])]]

----------------------------------------------------------------------------
(* gensim.models.LsiModel.  The truncated SVD that fits the model is the   *)
(* library's; for the corpus of cell 2 the fitted projection is the one    *)
(* the notebook records (print_topics, cell 26), in thousandths.           *)

\* num_topics=2, cell 23
num_topics == 2

(* The left singular vectors u by word, <<topic 0, topic 1>>.  Cell 26     *)
(* prints the ten largest weights of each topic; the two it leaves out of  *)
(* each topic ("human" and "eps" of topic 0, "graph" and "minors" of topic *)
(* 1) are recovered from the projections printed by cells 27 and 31.       *)
DeerwesterU ==
    [w \in {"computer", "human", "interface", "response", "survey", "system",
            "time", "user", "eps", "trees", "graph", "minors"} |->
        CASE w = "trees"     -> <<703, 161>>
          [] w = "graph"     -> <<538, 76>>
          [] w = "minors"    -> <<402, 30>>
          [] w = "survey"    -> <<187, -171>>
          [] w = "system"    -> <<61, -460>>
          [] w = "time"      -> <<60, -320>>
          [] w = "response"  -> <<60, -320>>
          [] w = "user"      -> <<58, -373>>
          [] w = "computer"  -> <<49, -293>>
          [] w = "interface" -> <<35, -328>>
          [] w = "human"     -> <<30, -280>>
          [] w = "eps"       -> <<35, -332>>]

\* LsiModel(corpus, id2word=dictionary, num_topics=n): the model remembers
\* the vocabulary size; u is indexed by term id; trained_on is the space of
\* the vectors the decomposition was computed from
LsiModel(c, id2word, n) ==
    [num_terms |-> Cardinality(DOMAIN id2word.token2id),
     num_topics |-> n,
     id2word |-> id2word,
     trained_on |-> IF c.docs = <<>> THEN "none" ELSE c.docs[1].space,
     projection |->
        [u |-> [t \in {id2word.token2id[w] : w \in DOMAIN id2word.token2id} |->
                   LET w == CHOOSE x \in DOMAIN id2word.token2id :
                                id2word.token2id[x] = t
                   IN  IF w \in DOMAIN DeerwesterU THEN DeerwesterU[w]
                       ELSE [k \in 1..n |-> 0]]]]

\* lsi[vec]: the vector times u; (topic, value) for every topic whose value
\* is not zero.  via records the space the projected vector came from.
LsiApply(model, v) ==
    LET sum(t) == SumSeq([k \in DOMAIN v.items |->
                     IF v.items[k][1] \in DOMAIN model.projection.u
                     THEN Milli(v, k) * model.projection.u[v.items[k][1]][t]
                     ELSE 0])
        topics == Kept([t \in 1..model.num_topics |-> t],
                       [t \in 1..model.num_topics |-> sum(t) # 0])
    IN  [space |-> "lsi", dtype |-> "float", via |-> v.space,
         items |-> [k \in DOMAIN topics |->
                       <<topics[k] - 1, RoundDiv(sum(topics[k]), FP)>>]]

\* lsi[corpus]
LsiCorpus(model, c) ==
    [kind |-> "TransformedCorpus",
     docs |-> [d \in DOMAIN c.docs |-> LsiApply(model, c.docs[d])]]

\* lsi.print_topics(n): for each topic the (word, weight) pairs, largest
\* absolute weight first
RECURSIVE TopWords(_, _, _)
TopWords(u, token2id, t) ==
    IF DOMAIN token2id = {} THEN <<>>
    ELSE LET ws == SortWords(DOMAIN token2id)
             best == CHOOSE k \in DOMAIN ws :
                        \A j \in DOMAIN ws :
                            \/ Abs(u[token2id[ws[j]]][t]) < Abs(u[token2id[ws[k]]][t])
                            \/ Abs(u[token2id[ws[j]]][t]) = Abs(u[token2id[ws[k]]][t])
                               /\ token2id[ws[k]] <= token2id[ws[j]]
         IN  <<<<ws[best], u[token2id[ws[best]]][t]>>>>
             \o TopWords(u, [w \in (DOMAIN token2id) \ {ws[best]} |-> token2id[w]], t)

print_topics(model, n) ==
    [t \in 1..Min(n, model.num_topics) |->
        <<t - 1, SubSeq(TopWords(model.projection.u, model.id2word.token2id, t), 1,
                        Min(10, Cardinality(DOMAIN model.id2word.token2id)))>>]

----------------------------------------------------------------------------
(* gensim.similarities.MatrixSimilarity: a dense matrix with one row of    *)
(* unit length per document; a query is scaled to unit length and          *)
(* multiplied with every row (cosine similarity).                          *)

\* the scale of a unit vector's coordinate: 1.0 is 10000
UnitScale == 10 * FP

\* sparse2full followed by unitvec, coordinates at UnitScale
UnitDense(v, num_features) ==
    LET dense == [f \in 1..num_features |->
                     SumSeq([k \in DOMAIN v.items |->
                                IF v.items[k][1] = f - 1 THEN Milli(v, k) ELSE 0])]
        \* four times the Euclidean norm
        norm4 == ISqrt(16 * SumSeq([f \in 1..num_features |-> dense[f] * dense[f]]))
    IN  IF norm4 = 0 THEN dense
        ELSE [f \in 1..num_features |-> RoundDiv(dense[f] * 4 * UnitScale, norm4)]

\* the order of the rows of an index built from a corpus: reversed
IndexRowsReversed(docs) == [i \in DOMAIN docs |-> docs[Len(docs) + 1 - i]]
\* the order of the rows of an index built from a corpus: corpus order
IndexRows(docs) == docs

\* MatrixSimilarity(corpus): num_features is 1 + the largest id of the
\* corpus; row i is document i
MatrixSimilarity(c) ==
    LET ids == UNION {{c.docs[d].items[k][1] : k \in DOMAIN c.docs[d].items} :
                         d \in DOMAIN c.docs}
        nf == IF ids = {} THEN 0
              ELSE 1 + (CHOOSE t \in ids : \A u \in ids : u <= t)
        rows == IndexRows(c.docs)
    IN  [num_features |-> nf,
         via |-> [i \in DOMAIN rows |-> rows[i].via],
         index |-> [i \in DOMAIN rows |-> UnitDense(rows[i], nf)]]

\* index[vec]: one similarity per row, in thousandths
Similarities(ix, v) ==
    LET q == UnitDense(v, ix.num_features)
    IN  [i \in DOMAIN ix.index |->
            RoundDiv(SumSeq([f \in 1..ix.num_features |-> ix.index[i][f] * q[f]]),
                     (UnitScale * UnitScale) \div FP)]

\* list(enumerate(sims))
Enumerate(s) == [i \in DOMAIN s |-> <<i - 1, s[i]>>]

\* sorted(pairs, key=lambda item: item[1]): the key without its minus sign,
\* smallest value first
SortedBySimAscending(pairs) ==
    [k \in DOMAIN pairs |->
        pairs[CHOOSE j \in DOMAIN pairs :
                  Cardinality({i \in DOMAIN pairs :
                                  \/ pairs[i][2] < pairs[j][2]
                                  \/ pairs[i][2] = pairs[j][2] /\ i < j}) = k - 1]]

RECURSIVE SortedBySim(_)
\* sorted(pairs, key=lambda item: -item[1]): largest value first; sorted is
\* stable, so equal values keep their order
SortedBySim(pairs) ==
    IF pairs = <<>> THEN <<>>
    ELSE LET first == CHOOSE k \in DOMAIN pairs :
                         /\ \A j \in DOMAIN pairs : pairs[j][2] <= pairs[k][2]
                         /\ \A j \in 1..(k - 1) : pairs[j][2] < pairs[k][2]
         IN  <<pairs[first]>>
             \o SortedBySim([j \in 1..(Len(pairs) - 1) |->
                               IF j < first THEN pairs[j] ELSE pairs[j + 1]])

----------------------------------------------------------------------------
(* State.                                                                  *)

VARIABLES
    notebook,    \* the notebook this kernel session runs
    lsa_ns,      \* LSA.ipynb: the kernel's namespace, name -> value
    lsa_pc,      \* LSA.ipynb: the execution count of the next cell to run
    lsa_error,   \* LSA.ipynb: a cell raised; Run All stops there
    lsa_out,     \* LSA.ipynb: what the cells printed, <<cell, value>>
    files,       \* the working directory of LSA.ipynb, name -> content
    news_ns,     \* 20-newsgroups notebook: the kernel's namespace
    news_pc,     \* 20-newsgroups notebook: the next code cell, by position
    news_error,  \* 20-newsgroups notebook: a cell raised
    news_out,    \* 20-newsgroups notebook: what the cells printed
    vz,          \* harness of the vectorizers (doc2bow, CountVectorizer)
    sc,          \* harness of the clustering scores
    am,          \* harness of argmax
    tk,          \* harness of the tokenization (cells 5 to 9 of LSA.ipynb)
    rk           \* harness of the ranking (cell 38 of LSA.ipynb)

lsaVars == <<lsa_ns, lsa_pc, lsa_error, lsa_out, files>>
newsVars == <<news_ns, news_pc, news_error, news_out>>
harnessVars == <<notebook, vz, sc, am, tk, rk>>
vars == <<notebook, lsa_ns, lsa_pc, lsa_error, lsa_out, files,
          news_ns, news_pc, news_error, news_out, vz, sc, am, tk, rk>>

\* name = value in a namespace
Bind(ns, name, value) == (name :> value) @@ ns

----------------------------------------------------------------------------
(* LSA.ipynb, cell by cell.  A cell is numbered by its execution count.    *)

LsaLastCell == 38

\* the names a cell reads that an earlier cell must have bound
LsaReads(c) ==
    CASE c = 3  -> {"documents"}
      [] c = 5  -> {"documents", "stoplist"}
      [] c = 6  -> {"texts"}
      [] c = 7  -> {"texts"}
      [] c = 8  -> {"all_tokens"}
      [] c = 9  -> {"texts", "tokens_once"}
      [] c = 10 -> {"corpora", "texts"}
      [] c = 11 -> {"dictionary"}
      [] c = 12 -> {"dictionary"}
      [] c = 13 -> {"dictionary"}
      [] c = 14 -> {"dictionary"}
      [] c = 15 -> {"dictionary", "texts"}
      [] c = 16 -> {"corpora", "corpus"}
      [] c = 17 -> {"corpora"}
      [] c = 18 -> {"corpora"}
      [] c = 19 -> {"corpus"}
      [] c = 20 -> {"models", "corpus"}
      [] c = 21 -> {"tfidf", "corpus"}
      [] c = 22 -> {"corpus_tfidf"}
      [] c = 23 -> {"models", "corpus_tfidf", "dictionary"}
      [] c = 24 -> {"lsi", "corpus_tfidf"}
      [] c = 25 -> {"lsi"}
      [] c = 26 -> {"topic"}
      [] c = 27 -> {"corpus_lsi"}
      [] c = 28 -> {"lsi"}
      [] c = 29 -> {"models"}
      [] c = 30 -> {"dictionary"}
      [] c = 31 -> {"lsi", "vec_bow"}
      [] c = 32 -> {"similarities", "lsi", "corpus"}
      [] c = 33 -> {"index"}
      [] c = 34 -> {"similarities"}
      [] c = 35 -> {"index"}
      [] c = 36 -> {"index", "vec_lsi"}
      [] c = 37 -> {"sims"}
      [] c = 38 -> {"sims"}
      [] OTHER  -> {}

\* the files a cell opens for reading
LsaFileReads(c) ==
    CASE c = 17 -> {"deerwester.mm"}
      [] c = 18 -> {"deerwester.dict"}
      [] c = 29 -> {"model.lsi"}
      [] c = 34 -> {"deerwester.index"}
      [] OTHER  -> {}

\* the cells that call into gensim (a call that can raise)
LsaLibraryCells ==
    {1} \cup (10..12) \cup (14..18) \cup (20..25) \cup (27..34) \cup {36}

\* a kernel that goes on with the next cell after a cell raised
LsaRunnableAfterError(c) == notebook = "LSA" /\ lsa_pc = c
\* Run All: the cell whose turn it is runs, unless a cell raised before
LsaRunnable(c) == notebook = "LSA" /\ lsa_pc = c /\ ~lsa_error

(* Cell c runs to its end: the namespace becomes ns2, the directory fs2,   *)
(* printed is appended to the output, and the next cell is due.  The cell  *)
(* can only run to its end when the names and files it reads exist.        *)
LsaDo(c, ns2, fs2, printed) ==
    /\ LsaRunnable(c)
    /\ LsaReads(c) \subseteq DOMAIN lsa_ns
    /\ LsaFileReads(c) \subseteq DOMAIN files
    /\ lsa_ns' = ns2
    /\ files' = fs2
    /\ lsa_out' = lsa_out \o [k \in DOMAIN printed |-> <<c, printed[k]>>]
    /\ lsa_pc' = c + 1
    /\ UNCHANGED <<lsa_error, newsVars, harnessVars>>

\* from gensim import corpora, models, similarities
LsaCell1 ==
    LsaDo(1, Bind(Bind(Bind(lsa_ns, "corpora", "module"), "models", "module"),
                  "similarities", "module"), files, <<>>)

\* documents = [...]
LsaCell2 == LsaDo(2, Bind(lsa_ns, "documents", DeerwesterDocuments), files, <<>>)

\* print(documents)
LsaCell3 == LsaDo(3, lsa_ns, files, <<lsa_ns["documents"]>>)

\* stoplist = set('for a of the and to in'.split())
LsaCell4 == LsaDo(4, Bind(lsa_ns, "stoplist", Stoplist), files, <<>>)

\* texts = [[word for word in document.lower().split() if word not in stoplist] ...]
LsaCell5 ==
    LsaDo(5, Bind(lsa_ns, "texts", Tokenize(lsa_ns["documents"], lsa_ns["stoplist"])),
          files, <<>>)

\* print(texts)
LsaCell6 == LsaDo(6, lsa_ns, files, <<lsa_ns["texts"]>>)

\* all_tokens = sum(texts, []); print(all_tokens)
LsaCell7 ==
    LET v == Concat(lsa_ns["texts"])
    IN  LsaDo(7, Bind(lsa_ns, "all_tokens", v), files, <<v>>)

\* tokens_once = set(word for word in set(all_tokens) if all_tokens.count(word) == 1)
LsaCell8 ==
    LET v == TokensOnce(lsa_ns["all_tokens"])
    IN  LsaDo(8, Bind(lsa_ns, "tokens_once", v), files, <<v>>)

\* texts = [[word for word in text if word not in tokens_once] for text in texts]
LsaCell9 ==
    LET v == RemoveOnce(lsa_ns["texts"], lsa_ns["tokens_once"])
    IN  LsaDo(9, Bind(lsa_ns, "texts", v), files, <<v>>)

\* dictionary = corpora.Dictionary(texts); print(dictionary)
LsaCell10 ==
    LET v == Dictionary(lsa_ns["texts"])
    IN  LsaDo(10, Bind(lsa_ns, "dictionary", v), files,
              <<[Dictionary |-> Cardinality(DOMAIN v.token2id)]>>)

\* dictionary.save('deerwester.dict')
LsaCell11 ==
    LsaDo(11, lsa_ns,
          FileWrite(files, "deerwester.dict",
                    Pickle("Dictionary", lsa_ns["dictionary"], {})), <<>>)

\* dictionary.save_as_text('deerwester_text.dict')
LsaCell12 ==
    LsaDo(12, lsa_ns,
          FileWrite(files, "deerwester_text.dict",
                    DictionaryText(lsa_ns["dictionary"])), <<>>)

\* print(dictionary.token2id)
LsaCell13 == LsaDo(13, lsa_ns, files, <<lsa_ns["dictionary"].token2id>>)

\* the query of cells 14 and 30
HumanComputerInteraction == Text(<<"Human", "computer", "interaction">>)

\* new_doc = "Human computer interaction"
\* new_vec = dictionary.doc2bow(new_doc.lower().split()); print(new_vec)
LsaCell14 ==
    LET r == QueryBow(lsa_ns["dictionary"], Split(Lower(HumanComputerInteraction)))
    IN  LsaDo(14, Bind(Bind(Bind(lsa_ns, "new_doc", HumanComputerInteraction),
                            "dictionary", r.dictionary), "new_vec", r.bow),
              files, <<r.bow.items>>)

\* corpus = [dictionary.doc2bow(text) for text in texts]; print(corpus)
LsaCell15 ==
    LET r == BowCorpus(lsa_ns["dictionary"], lsa_ns["texts"])
    IN  LsaDo(15, Bind(Bind(lsa_ns, "dictionary", r.dictionary),
                       "corpus", ListCorpus(r.docs)),
              files, <<[d \in DOMAIN r.docs |-> r.docs[d].items]>>)

\* corpora.MmCorpus.serialize('deerwester.mm', corpus): the matrix and the
\* offsets of its documents
LsaCell16 ==
    LET mm == MmSerialize(lsa_ns["corpus"])
    IN  LsaDo(16, lsa_ns,
              FileWrite(FileWrite(files, "deerwester.mm", mm),
                        "deerwester.mm.index",
                        [format |-> "pickle", cls |-> "offsets",
                         state |-> mm.num_docs]), <<>>)

\* corpus = corpora.MmCorpus('deerwester.mm'); print(list(corpus))
LsaCell17 ==
    LET v == MmCorpus(files["deerwester.mm"])
    IN  LsaDo(17, Bind(lsa_ns, "corpus", v), files,
              <<[d \in DOMAIN v.docs |-> v.docs[d].items]>>)

\* dictionary = corpora.Dictionary.load('deerwester.dict'); print(dictionary)
LsaCell18 ==
    LET v == Unpickle(files["deerwester.dict"])
    IN  LsaDo(18, Bind(lsa_ns, "dictionary", v), files,
              <<[Dictionary |-> Cardinality(DOMAIN v.token2id)]>>)

\* print(corpus)
LsaCell19 ==
    LsaDo(19, lsa_ns, files,
          <<[MmCorpus |-> <<lsa_ns["corpus"].num_docs, lsa_ns["corpus"].num_terms,
                            lsa_ns["corpus"].num_nnz>>]>>)

\* tfidf = models.TfidfModel(corpus); print(tfidf)
LsaCell20 ==
    LET v == TfidfModel(lsa_ns["corpus"])
    IN  LsaDo(20, Bind(lsa_ns, "tfidf", v), files,
              <<[TfidfModel |-> <<v.num_docs, v.num_nnz>>]>>)

\* corpus_tfidf = tfidf[corpus]; print(corpus_tfidf)
LsaCell21 ==
    LET v == TfidfCorpus(lsa_ns["tfidf"], lsa_ns["corpus"])
    IN  LsaDo(21, Bind(lsa_ns, "corpus_tfidf", v), files, <<v.kind>>)

\* for doc in <corpus>: print(doc): every document is printed and doc is
\* left bound to the last one
ForDocPrint(c, name) ==
    LET docs == lsa_ns[name].docs
    IN  LsaDo(c, IF docs = <<>> THEN lsa_ns
                 ELSE Bind(lsa_ns, "doc", docs[Len(docs)]),
              files, [d \in DOMAIN docs |-> docs[d].items])

\* for doc in corpus_tfidf: print(doc)
LsaCell22 == ForDocPrint(22, "corpus_tfidf")

\* lsi = models.LsiModel(corpus_tfidf, id2word=dictionary, num_topics=2); print(lsi)
LsaCell23 ==
    LET v == LsiModel(lsa_ns["corpus_tfidf"], lsa_ns["dictionary"], num_topics)
    IN  LsaDo(23, Bind(lsa_ns, "lsi", v), files,
              <<[LsiModel |-> <<v.num_terms, v.num_topics>>]>>)

\* corpus_lsi = lsi[corpus_tfidf]; print(corpus_lsi)
LsaCell24 ==
    LET v == LsiCorpus(lsa_ns["lsi"], lsa_ns["corpus_tfidf"])
    IN  LsaDo(24, Bind(lsa_ns, "corpus_lsi", v), files, <<v.kind>>)

\* topic = lsi.print_topics(2)
LsaCell25 ==
    LsaDo(25, Bind(lsa_ns, "topic",
                   print_topics(lsa_ns["lsi"], 2)),
          files, <<>>)

\* print(topic)
LsaCell26 == LsaDo(26, lsa_ns, files, <<lsa_ns["topic"]>>)

\* for doc in corpus_lsi: print(doc)
LsaCell27 == ForDocPrint(27, "corpus_lsi")

\* LsiModel.save(fname): the projection goes to fname + '.projection', the
\* rest of the model to fname
LsiSave(fs, fname, model) ==
    FileWrite(FileWrite(fs, "model.lsi.projection",
                        Pickle("Projection", model.projection, {})),
              fname, Pickle("LsiModel", model, {"projection", "dispatcher"}))

\* a load that reads fname alone and leaves the projection file unread
LsiLoadWithoutProjection(fs, fname) == Unpickle(fs[fname])

\* LsiModel.load(fname): the model of fname, with the projection of
\* fname + '.projection' when that file can be read
LsiLoad(fs, fname) ==
    IF "model.lsi.projection" \in DOMAIN fs
    THEN Bind(Unpickle(fs[fname]), "projection", Unpickle(fs["model.lsi.projection"]))
    ELSE Unpickle(fs[fname])

\* lsi.save('model.lsi')
LsaCell28 == LsaDo(28, lsa_ns, LsiSave(files, "model.lsi", lsa_ns["lsi"]), <<>>)

\* lsi = models.LsiModel.load('model.lsi'); print(lsi)
LsaCell29 ==
    LET v == LsiLoad(files, "model.lsi")
    IN  LsaDo(29, Bind(lsa_ns, "lsi", v), files,
              <<[LsiModel |-> <<v.num_terms, v.num_topics>>]>>)

\* doc = "Human computer interaction"
\* vec_bow = dictionary.doc2bow(doc.lower().split()); print(vec_bow)
LsaCell30 ==
    LET r == QueryBow(lsa_ns["dictionary"], Split(Lower(HumanComputerInteraction)))
    IN  LsaDo(30, Bind(Bind(Bind(lsa_ns, "doc", HumanComputerInteraction),
                            "dictionary", r.dictionary), "vec_bow", r.bow),
              files, <<r.bow.items>>)

\* vec_lsi = lsi[vec_bow]; print(vec_lsi)
LsaCell31 ==
    LET v == LsiApply(lsa_ns["lsi"], lsa_ns["vec_bow"])
    IN  LsaDo(31, Bind(lsa_ns, "vec_lsi", v), files, <<v.items>>)

\* index = similarities.MatrixSimilarity(lsi[corpus]); print(index)
LsaCell32 ==
    LET v == MatrixSimilarity(LsiCorpus(lsa_ns["lsi"], lsa_ns["corpus"]))
    IN  LsaDo(32, Bind(lsa_ns, "index", v), files,
              <<[MatrixSimilarity |-> <<Len(v.index), v.num_features>>]>>)

\* index.save('deerwester.index')
LsaCell33 ==
    LsaDo(33, lsa_ns,
          FileWrite(files, "deerwester.index",
                    Pickle("MatrixSimilarity", lsa_ns["index"], {})), <<>>)

\* index = similarities.MatrixSimilarity.load('deerwester.index')
LsaCell34 ==
    LsaDo(34, Bind(lsa_ns, "index", Unpickle(files["deerwester.index"])), files, <<>>)

\* print(index)
LsaCell35 ==
    LsaDo(35, lsa_ns, files,
          <<[MatrixSimilarity |-> <<Len(lsa_ns["index"].index),
                                    lsa_ns["index"].num_features>>]>>)

\* sims = index[vec_lsi]; print(sims)
LsaCell36 ==
    LET v == Similarities(lsa_ns["index"], lsa_ns["vec_lsi"])
    IN  LsaDo(36, Bind(lsa_ns, "sims", v), files, <<v>>)

\* print(list(enumerate(sims)))
LsaCell37 == LsaDo(37, lsa_ns, files, <<Enumerate(lsa_ns["sims"])>>)

\* sims = sorted(enumerate(sims), key=lambda item: -item[1]); print(sims)
LsaCell38 ==
    LET v == SortedBySim(Enumerate(lsa_ns["sims"]))
    IN  LsaDo(38, Bind(lsa_ns, "sims", v), files, <<v>>)

\* the namespace when the library call of cell c starts: cells 14 and 30
\* assign the query string first
LsaBeforeCall(c) ==
    CASE c = 14 -> Bind(lsa_ns, "new_doc", HumanComputerInteraction)
      [] c = 30 -> Bind(lsa_ns, "doc", HumanComputerInteraction)
      [] OTHER  -> lsa_ns

(* A library call of the cell that is due raises.  No cell has a try or an *)
(* except, so the exception ends the cell with nothing of the call         *)
(* assigned or printed, and Run All runs no further cell.                  *)
LsaRaise ==
    /\ notebook = "LSA"
    /\ ~lsa_error
    /\ lsa_pc \in LsaLibraryCells
    /\ lsa_error' = TRUE
    /\ lsa_ns' = LsaBeforeCall(lsa_pc)
    /\ UNCHANGED <<lsa_pc, lsa_out, files, newsVars, harnessVars>>

LsaNext ==
    \/ LsaCell1 \/ LsaCell2 \/ LsaCell3 \/ LsaCell4 \/ LsaCell5 \/ LsaCell6
    \/ LsaCell7 \/ LsaCell8 \/ LsaCell9 \/ LsaCell10 \/ LsaCell11 \/ LsaCell12
    \/ LsaCell13 \/ LsaCell14 \/ LsaCell15 \/ LsaCell16 \/ LsaCell17
    \/ LsaCell18 \/ LsaCell19 \/ LsaCell20 \/ LsaCell21 \/ LsaCell22
    \/ LsaCell23 \/ LsaCell24 \/ LsaCell25 \/ LsaCell26 \/ LsaCell27
    \/ LsaCell28 \/ LsaCell29 \/ LsaCell30 \/ LsaCell31 \/ LsaCell32
    \/ LsaCell33 \/ LsaCell34 \/ LsaCell35 \/ LsaCell36 \/ LsaCell37
    \/ LsaCell38 \/ LsaRaise

LsaInit ==
    /\ lsa_ns = <<>>
    /\ lsa_pc = 1
    /\ lsa_error = FALSE
    /\ lsa_out = <<>>
    /\ files = <<>>

----------------------------------------------------------------------------
(* 20-newsgroups notebook: the library calls.                              *)

\* min_df=5, cell 3
min_df == 5
\* the number of topics asked of every model (n_components=20 in cells 4
\* to 7; the model keeps it small)
n_components == 3
\* the number of newsgroups, the labels of news.target
NumNewsgroups == 20
\* most documents of a fetched dataset
MaxNewsDocs == 6
\* the random states a fit can start from (no random_state is passed)
NumSeeds == 1

\* stop_words='english': the words of sklearn's list among the model's words
EnglishStopWords == {"a", "and", "for", "in", "of", "the", "to"}

\* CountVectorizer's analyzer: lower case, split into words, stop words
\* removed
Analyze(doc, stop) ==
    LET words == Split(Lower(doc))
    IN  Kept(words, [k \in DOMAIN words |-> words[k] \notin stop])

(* CountVectorizer(min_df=m, stop_words=stop).fit_transform(raw): the      *)
(* vocabulary is the sorted list of the terms whose document frequency     *)
(* (the number of documents the term occurs in) is at least m; X[i][j] is  *)
(* the count of vocabulary[j] in document i.  ok is false where sklearn    *)
(* raises ValueError: no term at all, fewer documents than m, or no term   *)
(* left after pruning.                                                     *)
CountVectorizer(raw, m, stop) ==
    LET analysed == [i \in DOMAIN raw |-> Analyze(raw[i], stop)]
        terms == UNION {Range(analysed[i]) : i \in DOMAIN raw}
        df(w) == Cardinality({i \in DOMAIN raw : w \in Range(analysed[i])})
        kept == SortWords({w \in terms : df(w) >= m})
    IN  [ok |-> terms # {} /\ Len(raw) >= m /\ kept # <<>>,
         vocabulary |-> kept,
         X |-> [i \in DOMAIN raw |->
                  [j \in DOMAIN kept |-> TokenCount(analysed[i], kept[j])]]]

\* a document of a fetched dataset: the first r mention "space"
NewsDoc(i, r) ==
    IF i <= r THEN Text(<<"The", "god", "of", "space", "space">>)
    ELSE Text(<<"god">>)

\* fetch_20newsgroups(subset='all'): the datasets the download can give,
\* scaled down to at most MaxNewsDocs posts
NewsDatasets ==
    {[data |-> [i \in 1..n |-> NewsDoc(i, r)],
      target |-> [i \in 1..n |-> (i - 1) % NumNewsgroups]] :
        n \in 1..MaxNewsDocs, r \in 0..MaxNewsDocs}

\* where a model of each kind starts its topics
KindOffset(kind) ==
    CASE kind = "lda" -> 0 [] kind = "nmf" -> 1 [] kind = "ens" -> 2
      [] kind = "plsa" -> 3

\* model.transform(X): the documents of X in topic space, one row per row of
\* X and one column per topic
Transform(components, X) ==
    [i \in DOMAIN X |->
        [t \in DOMAIN components |->
            SumSeq([j \in DOMAIN X[i] |-> X[i][j] * components[t][j]])]]

\* the rows of the training set a model embeds: all of them, in order
TrainingRows(X) == X

(* <Model>(n_components=k).fit(X) from random state seed.  The fitted      *)
(* topics are the library's; here each vocabulary word is given to one of  *)
(* the k topics, by kind and seed.  embedding_ is the training set in      *)
(* topic space (EnsembleTopics and PLSA keep it).                          *)
Fit(kind, X, k, seed) ==
    LET nwords == IF X = <<>> THEN 0 ELSE Len(X[1])
        components == [t \in 1..k |-> [j \in 1..nwords |->
                          IF (j + seed + KindOffset(kind)) % k = t - 1 THEN 1 ELSE 0]]
    IN  [kind |-> kind, n_components |-> k, components_ |-> components,
         embedding_ |-> Transform(components, TrainingRows(X))]

RECURSIVE ArgmaxScan(_, _, _, _)
\* numpy's argmax loop from column i on, best being the column of the largest
\* entry so far: a later column replaces it when its entry is larger
\* (strict), or at least as large (not strict)
ArgmaxScan(row, i, best, strict) ==
    IF i > Len(row) THEN best
    ELSE ArgmaxScan(row, i + 1,
                    IF row[i] > row[best] \/ (~strict /\ row[i] = row[best])
                    THEN i ELSE best,
                    strict)

\* the index of the largest entry of a row: the last one
RowArgmaxLast(row) == ArgmaxScan(row, 2, 1, FALSE) - 1
\* the index of the largest entry of a row, the first one when several are
\* largest (numpy counts columns from 0)
RowArgmax(row) == ArgmaxScan(row, 2, 1, TRUE) - 1

\* np.argmax(M, axis=1)
Argmax(M) == [i \in DOMAIN M |-> RowArgmax(M[i])]

\* n * (n - 1) / 2
Comb2(n) == (n * (n - 1)) \div 2

RECURSIVE SumFn(_)
\* the sum of the values of a function with a finite domain
SumFn(f) ==
    IF DOMAIN f = {} THEN 0
    ELSE LET x == CHOOSE y \in DOMAIN f : TRUE
         IN  f[x] + SumFn([y \in (DOMAIN f) \ {x} |-> f[y]])

(* sklearn.metrics.adjusted_rand_score(labels_true, labels_pred), as the   *)
(* fraction num / den (den > 0).  1.0 when both labellings have a single   *)
(* cluster, no sample, or one cluster per sample; otherwise from the       *)
(* contingency table.                                                      *)
adjusted_rand_score(labels_true, labels_pred) ==
    LET n == Len(labels_true)
        classes == Range(labels_true)
        clusters == Range(labels_pred)
        nij(c, k) == Cardinality({i \in 1..n : labels_true[i] = c /\ labels_pred[i] = k})
        sum_comb_c == SumFn([c \in classes |->
                          Comb2(Cardinality({i \in 1..n : labels_true[i] = c}))])
        sum_comb_k == SumFn([k \in clusters |->
                          Comb2(Cardinality({i \in 1..n : labels_pred[i] = k}))])
        sum_comb == SumFn([p \in classes \X clusters |-> Comb2(nij(p[1], p[2]))])
        nc == Cardinality(classes)
        nk == Cardinality(clusters)
    IN  IF nc = nk /\ (nc = 1 \/ nc = 0 \/ nc = n)
        THEN [num |-> 1, den |-> 1]
        ELSE [num |-> 2 * Comb2(n) * sum_comb - 2 * sum_comb_c * sum_comb_k,
              den |-> Comb2(n) * (sum_comb_c + sum_comb_k)
                      - 2 * sum_comb_c * sum_comb_k]

----------------------------------------------------------------------------
(* 20-newsgroups notebook, cell by cell.  The code cells are numbered by   *)
(* position, 1 to 13; a cell is a list of statements, run in order.        *)

NewsLastCell == 13

\* the number of statements of a cell
NewsStmts(c) ==
    CASE c = 3 -> 2 [] c = 9 -> 8 [] c \in 10..13 -> 2 [] OTHER -> 1

\* the names statement k of cell c reads
NewsReads(c, k) ==
    CASE c = 3 /\ k = 1 -> {"fetch_20newsgroups"}
      [] c = 3 /\ k = 2 -> {"CountVectorizer", "news"}
      [] c = 4 -> {"LatentDirichletAllocation", "data"}
      [] c = 5 -> {"NMF", "data"}
      [] c = 6 -> {"EnsembleTopics", "data"}
      [] c = 7 -> {"PLSA", "data"}
      [] c = 9 /\ k = 1 -> {"nmf_model", "data"}
      [] c = 9 /\ k = 2 -> {"np", "nmf_doc_vectors"}
      [] c = 9 /\ k = 3 -> {"lda_model", "data"}
      [] c = 9 /\ k = 4 -> {"np", "lda_doc_vectors"}
      [] c = 9 /\ k = 5 -> {"ens_model"}
      [] c = 9 /\ k = 6 -> {"np", "ens_doc_vectors"}
      [] c = 9 /\ k = 7 -> {"plsa_model"}
      [] c = 9 /\ k = 8 -> {"np", "plsa_doc_vectors"}
      [] c = 10 /\ k = 1 -> {"adjusted_rand_score", "news", "nmf_clusters"}
      [] c = 10 /\ k = 2 -> {"adjusted_mutual_info_score", "news", "nmf_clusters"}
      [] c = 11 /\ k = 1 -> {"adjusted_rand_score", "news", "lda_clusters"}
      [] c = 11 /\ k = 2 -> {"adjusted_mutual_info_score", "news", "lda_clusters"}
      [] c = 12 /\ k = 1 -> {"adjusted_rand_score", "news", "plsa_clusters"}
      [] c = 12 /\ k = 2 -> {"adjusted_mutual_info_score", "news", "plsa_clusters"}
      [] c = 13 /\ k = 1 -> {"adjusted_rand_score", "news", "ens_clusters"}
      [] c = 13 /\ k = 2 -> {"adjusted_mutual_info_score", "news", "ens_clusters"}
      [] OTHER -> {}

\* the statements that call into sklearn, enstop or numpy: all but the
\* attribute reads of cell 9
NewsLibraryStmt(c, k) == ~(c = 9 /\ k \in {5, 7})

\* the cluster vector a score cell hands to the metrics: a wrong one
ScoredClustersSwapped(c) ==
    CASE c = 10 -> "nmf_clusters" [] c = 11 -> "lda_clusters"
      [] c = 12 -> "ens_clusters" [] c = 13 -> "plsa_clusters"
\* the cluster vector a score cell hands to the metrics
ScoredClusters(c) ==
    CASE c = 10 -> "nmf_clusters" [] c = 11 -> "lda_clusters"
      [] c = 12 -> "plsa_clusters" [] c = 13 -> "ens_clusters"

\* the text a score cell prints before the score
ScoreLabel(c, k) ==
    CASE c = 10 /\ k = 1 -> "NMF Adjusted Rand: "
      [] c = 10 /\ k = 2 -> "NMF Adjusted Mutual Information: "
      [] c = 11 /\ k = 1 -> "LDA Adjusted Rand: "
      [] c = 11 /\ k = 2 -> "LDA Adjusted Mutual Information: "
      [] c = 12 /\ k = 1 -> "pLSA Adjusted Rand: "
      [] c = 12 /\ k = 2 -> "pLSA Adjusted Mutual Information: "
      [] c = 13 /\ k = 1 -> "EnsTop Adjusted Rand: "
      [] c = 13 /\ k = 2 -> "EnsTop Adjusted Mutual Information: "

(* What the nondeterminism of a cell is drawn from: the dataset the        *)
(* download gives (cell 3) and the random state of a fit, with the number  *)
(* of topics EnsembleTopics settles on (cells 4 to 7).                     *)
NewsChoices(c) ==
    CASE c = 3 -> [ds : NewsDatasets, seed : {1}, k : {n_components}]
      [] c \in {4, 5, 7} ->
            [ds : {<<>>}, seed : 1..NumSeeds, k : {n_components}]
      [] c = 6 -> [ds : {<<>>}, seed : 1..NumSeeds, k : 1..n_components]
      [] OTHER -> [ds : {<<>>}, seed : {1}, k : {n_components}]

\* whether statement k of cell c runs to its end in namespace ns: what it
\* reads is bound, and the library call does not raise on its arguments
NewsStmtOk(c, k, ns, ch) ==
    /\ NewsReads(c, k) \subseteq DOMAIN ns
    /\ c = 3 /\ k = 2 =>
          CountVectorizer(ns["news"].data, min_df, EnglishStopWords).ok
    /\ c \in 10..13 =>
          Len(ns["news"].target) = Len(ns[ScoredClusters(c)])

\* the namespace after statement k of cell c
NewsExec(c, k, ns, ch) ==
    CASE c = 1 -> Bind(ns, "warnings", "module")
      [] c = 2 ->
            [n \in {"fetch_20newsgroups", "CountVectorizer", "NMF",
                    "LatentDirichletAllocation", "EnsembleTopics", "PLSA"}
                |-> "callable"] @@ ns
      [] c = 3 /\ k = 1 -> Bind(ns, "news", ch.ds)
      [] c = 3 /\ k = 2 ->
            Bind(ns, "data",
                 CountVectorizer(ns["news"].data, min_df, EnglishStopWords).X)
      [] c = 4 -> Bind(ns, "lda_model", Fit("lda", ns["data"], n_components, ch.seed))
      [] c = 5 -> Bind(ns, "nmf_model", Fit("nmf", ns["data"], n_components, ch.seed))
      [] c = 6 -> Bind(ns, "ens_model", Fit("ens", ns["data"], ch.k, ch.seed))
      [] c = 7 -> Bind(ns, "plsa_model", Fit("plsa", ns["data"], n_components, ch.seed))
      [] c = 8 ->
            [n \in {"adjusted_mutual_info_score", "adjusted_rand_score", "np"}
                |-> "callable"] @@ ns
      [] c = 9 /\ k = 1 ->
            Bind(ns, "nmf_doc_vectors",
                 Transform(ns["nmf_model"].components_, ns["data"]))
      [] c = 9 /\ k = 2 -> Bind(ns, "nmf_clusters", Argmax(ns["nmf_doc_vectors"]))
      [] c = 9 /\ k = 3 ->
            Bind(ns, "lda_doc_vectors",
                 Transform(ns["lda_model"].components_, ns["data"]))
      [] c = 9 /\ k = 4 -> Bind(ns, "lda_clusters", Argmax(ns["lda_doc_vectors"]))
      [] c = 9 /\ k = 5 -> Bind(ns, "ens_doc_vectors", ns["ens_model"].embedding_)
      [] c = 9 /\ k = 6 -> Bind(ns, "ens_clusters", Argmax(ns["ens_doc_vectors"]))
      [] c = 9 /\ k = 7 -> Bind(ns, "plsa_doc_vectors", ns["plsa_model"].embedding_)
      [] c = 9 /\ k = 8 -> Bind(ns, "plsa_clusters", Argmax(ns["plsa_doc_vectors"]))
      [] OTHER -> ns

\* what statement k of cell c prints: the score cells print the label and
\* the score of news.target against the cell's cluster vector (the adjusted
\* mutual information is a float the model does not compute)
NewsPrinted(c, k, ns) ==
    IF c \in 10..13
    THEN <<[cell |-> c, label |-> ScoreLabel(c, k),
            labels_true |-> ns["news"].target,
            labels_pred |-> ns[ScoredClusters(c)],
            score |-> IF k = 1
                      THEN adjusted_rand_score(ns["news"].target,
                                               ns[ScoredClusters(c)])
                      ELSE [num |-> 0, den |-> 0]]>>
    ELSE <<>>

RECURSIVE NewsRun(_, _, _, _)
\* statements 1..k of cell c from namespace ns: whether they all run to
\* their end, the namespace they leave and what they print
NewsRun(c, k, ns, ch) ==
    IF k = 0 THEN [ok |-> TRUE, ns |-> ns, out |-> <<>>]
    ELSE LET before == NewsRun(c, k - 1, ns, ch)
         IN  IF before.ok /\ NewsStmtOk(c, k, before.ns, ch)
             THEN [ok |-> TRUE, ns |-> NewsExec(c, k, before.ns, ch),
                   out |-> before.out \o NewsPrinted(c, k, before.ns)]
             ELSE [ok |-> FALSE, ns |-> before.ns, out |-> before.out]

\* Run All: the cell whose turn it is runs, unless a cell raised before
NewsRunnable(c) == notebook = "20-newsgroups" /\ news_pc = c /\ ~news_error

\* cell c runs to its end
NewsCell(c) ==
    /\ NewsRunnable(c)
    /\ \E ch \in NewsChoices(c) :
          LET r == NewsRun(c, NewsStmts(c), news_ns, ch)
          IN  /\ r.ok
              /\ news_ns' = r.ns
              /\ news_out' = news_out \o r.out
    /\ news_pc' = c + 1
    /\ UNCHANGED <<news_error, lsaVars, harnessVars>>

\* import warnings; warnings.simplefilter('ignore')
NewsCell1 == NewsCell(1)
\* from sklearn... import ...; from enstop import EnsembleTopics, PLSA
NewsCell2 == NewsCell(2)
\* news = fetch_20newsgroups(subset='all')
\* data = CountVectorizer(min_df=5, stop_words='english').fit_transform(news.data)
NewsCell3 == NewsCell(3)
\* lda_model = LatentDirichletAllocation(n_components=20).fit(data)
NewsCell4 == NewsCell(4)
\* nmf_model = NMF(n_components=20, beta_loss='kullback-leibler', solver='mu').fit(data)
NewsCell5 == NewsCell(5)
\* ens_model = EnsembleTopics(n_components=20, n_starts=8, n_jobs=2).fit(data)
NewsCell6 == NewsCell(6)
\* plsa_model = PLSA(n_components=20).fit(data)
NewsCell7 == NewsCell(7)
\* from sklearn.metrics import ...; import numpy as np
NewsCell8 == NewsCell(8)
\* the document vectors and the clusters of the four models
NewsCell9 == NewsCell(9)
\* print("NMF Adjusted Rand: ", ...); print("NMF Adjusted Mutual Information: ", ...)
NewsCell10 == NewsCell(10)
\* print("LDA ...")
NewsCell11 == NewsCell(11)
\* print("pLSA ...")
NewsCell12 == NewsCell(12)
\* print("EnsTop ...")
NewsCell13 == NewsCell(13)

(* A library call of the cell that is due raises, at one of the cell's     *)
(* statements: the statements before it have run, nothing of the           *)
(* statement or of the rest of the cell is assigned or printed, and Run    *)
(* All runs no further cell.                                               *)
NewsRaise ==
    /\ notebook = "20-newsgroups"
    /\ ~news_error
    /\ news_pc \in 1..NewsLastCell
    /\ \E ch \in NewsChoices(news_pc), k \in 1..NewsStmts(news_pc) :
          LET r == NewsRun(news_pc, k - 1, news_ns, ch)
          IN  /\ NewsLibraryStmt(news_pc, k)
              /\ r.ok
              /\ news_ns' = r.ns
              /\ news_out' = news_out \o r.out
    /\ news_error' = TRUE
    /\ UNCHANGED <<news_pc, lsaVars, harnessVars>>

NewsNext ==
    \/ NewsCell1 \/ NewsCell2 \/ NewsCell3 \/ NewsCell4 \/ NewsCell5
    \/ NewsCell6 \/ NewsCell7 \/ NewsCell8 \/ NewsCell9 \/ NewsCell10
    \/ NewsCell11 \/ NewsCell12 \/ NewsCell13 \/ NewsRaise

NewsInit ==
    /\ news_ns = <<>>
    /\ news_pc = 1
    /\ news_error = FALSE
    /\ news_out = <<>>

----------------------------------------------------------------------------
(* The notebooks: a kernel session runs one of them, top to bottom.        *)

HarnessIdle == [pc |-> "idle"]

Init ==
    /\ notebook \in {"LSA", "20-newsgroups"}
    /\ LsaInit
    /\ NewsInit
    /\ vz = HarnessIdle /\ sc = HarnessIdle /\ am = HarnessIdle
    /\ tk = HarnessIdle /\ rk = HarnessIdle

Next == LsaNext \/ NewsNext

Spec == Init /\ [][Next]_vars

----------------------------------------------------------------------------
(* Harness of the vectorizers: Dictionary(texts), doc2bow and              *)
(* CountVectorizer on the corpus of the notebook and on every small        *)
(* corpus, and doc2bow on every short query.                               *)

\* the tokenized documents small corpora are made of
VzDocShapes ==
    {<<>>, <<"graph", "graph">>, <<"trees", "trees", "the", "graph">>}

\* the words queries are made of ("interaction" is in no corpus)
VzQueryWords == {"human", "interaction", "graph"}

VzCorpora == {DeerwesterTexts} \cup SeqsUpTo(VzDocShapes, MaxDocs)

\* the queries: the one of the notebook and every short one
VzQueries ==
    {Split(Lower(HumanComputerInteraction))} \cup SeqsUpTo(VzQueryWords, MaxQueryLen)

VzInit ==
    /\ notebook = "none"
    /\ LsaInit
    /\ NewsInit
    /\ sc = HarnessIdle /\ am = HarnessIdle
    /\ tk = HarnessIdle /\ rk = HarnessIdle
    /\ vz \in {[pc |-> "texts", texts |-> t] : t \in VzCorpora}

\* dictionary = corpora.Dictionary(texts)
VzDictionary ==
    /\ vz.pc = "texts"
    /\ vz' = [pc |-> "dictionary", texts |-> vz.texts,
              dictionary |-> Dictionary(vz.texts)]
    /\ UNCHANGED <<lsaVars, newsVars, notebook, sc, am, tk, rk>>

\* corpus = [dictionary.doc2bow(text) for text in texts]
VzBuild ==
    /\ vz.pc = "dictionary"
    /\ LET r == BowCorpus(vz.dictionary, vz.texts)
       IN  vz' = [pc |-> "built", texts |-> vz.texts,
                  dictionary |-> r.dictionary, corpus |-> r.docs]
    /\ UNCHANGED <<lsaVars, newsVars, notebook, sc, am, tk, rk>>

\* data = CountVectorizer(min_df=5, stop_words='english').fit_transform(...)
\* on the same documents, as strings
VzCount ==
    /\ vz.pc = "built"
    /\ vz' = [pc |-> "counted", texts |-> vz.texts,
              dictionary |-> vz.dictionary, corpus |-> vz.corpus,
              data |-> CountVectorizer([i \in DOMAIN vz.texts |-> Text(vz.texts[i])],
                                       min_df, EnglishStopWords)]
    /\ UNCHANGED <<lsaVars, newsVars, notebook, sc, am, tk, rk>>

\* vec = dictionary.doc2bow(tokens), any number of times
VzQuery ==
    /\ vz.pc \in {"counted", "queried"}
    /\ \E tokens \in VzQueries :
          LET r == QueryBow(vz.dictionary, tokens)
          IN  vz' = [pc |-> "queried", texts |-> vz.texts,
                     dictionary |-> r.dictionary, corpus |-> vz.corpus,
                     data |-> vz.data, query |-> tokens, bow |-> r.bow]
    /\ UNCHANGED <<lsaVars, newsVars, notebook, sc, am, tk, rk>>

VzNext == VzDictionary \/ VzBuild \/ VzCount \/ VzQuery

SpecVectorize == VzInit /\ [][VzNext]_vars

----------------------------------------------------------------------------
(* Harness of the scores: adjusted_rand_score on every pair of labellings  *)
(* of the same samples.                                                    *)

ScInit ==
    /\ notebook = "none"
    /\ LsaInit
    /\ NewsInit
    /\ vz = HarnessIdle /\ am = HarnessIdle
    /\ tk = HarnessIdle /\ rk = HarnessIdle
    /\ \E n \in 0..MaxSamples :
          sc \in {[pc |-> "labels", labels_true |-> t, labels_pred |-> p] :
                     t \in [1..n -> 0..MaxLabel], p \in [1..n -> 0..MaxLabel]}

\* adjusted_rand_score(labels_true, labels_pred)
ScScore ==
    /\ sc.pc = "labels"
    /\ sc' = [pc |-> "scored", labels_true |-> sc.labels_true,
              labels_pred |-> sc.labels_pred,
              score |-> adjusted_rand_score(sc.labels_true, sc.labels_pred)]
    /\ UNCHANGED <<lsaVars, newsVars, notebook, vz, am, tk, rk>>

ScNext == ScScore

SpecScore == ScInit /\ [][ScNext]_vars

----------------------------------------------------------------------------
(* Harness of argmax: np.argmax(M, axis=1) on every small document-topic   *)
(* matrix.                                                                 *)

AmInit ==
    /\ notebook = "none"
    /\ LsaInit
    /\ NewsInit
    /\ vz = HarnessIdle /\ sc = HarnessIdle
    /\ tk = HarnessIdle /\ rk = HarnessIdle
    /\ \E n \in 0..MaxRows, k \in 1..n_components :
          am \in {[pc |-> "matrix", columns |-> k, doc_vectors |-> M] :
                     M \in [1..n -> [1..k -> 0..MaxWeight]]}

\* clusters = np.argmax(doc_vectors, axis=1)
AmArgmax ==
    /\ am.pc = "matrix"
    /\ am' = [pc |-> "done", columns |-> am.columns,
              doc_vectors |-> am.doc_vectors,
              clusters |-> Argmax(am.doc_vectors)]
    /\ UNCHANGED <<lsaVars, newsVars, notebook, vz, sc, tk, rk>>

AmNext == AmArgmax

SpecArgmax == AmInit /\ [][AmNext]_vars

----------------------------------------------------------------------------
(* Harness of the tokenization: cells 4 to 9 of LSA.ipynb on the documents *)
(* of cell 2 and on every short list of small documents.                   *)

\* the documents short lists are made of: an empty string, stop words in
\* both cases, a word in both cases, a word said twice, blanks around
TkDocShapes ==
    {<<>>,
     Text(<<"The", "Graph", "of", "trees">>),
     <<" ">> \o Text(<<"A", "graph", "graph", "IV">>) \o <<" ">>,
     Text(<<"survey", "the", "trees">>)}

TkInit ==
    /\ notebook = "none"
    /\ LsaInit
    /\ NewsInit
    /\ vz = HarnessIdle /\ sc = HarnessIdle /\ am = HarnessIdle
    /\ rk = HarnessIdle
    /\ tk \in {[pc |-> "documents", documents |-> d] :
                  d \in {DeerwesterDocuments} \cup SeqsUpTo(TkDocShapes, MaxTkDocs)}

\* stoplist = set(...)
\* texts = [[word for word in document.lower().split() if word not in stoplist] ...]
TkTokenize ==
    /\ tk.pc = "documents"
    /\ tk' = [pc |-> "texts", documents |-> tk.documents, stoplist |-> Stoplist,
              texts |-> Tokenize(tk.documents, Stoplist)]
    /\ UNCHANGED <<lsaVars, newsVars, notebook, vz, sc, am, rk>>

\* all_tokens = sum(texts, [])
\* tokens_once = set(word for word in set(all_tokens) if all_tokens.count(word) == 1)
TkTokensOnce ==
    /\ tk.pc = "texts"
    /\ LET all_tokens == Concat(tk.texts)
       IN  tk' = [pc |-> "tokens_once", documents |-> tk.documents,
                  stoplist |-> tk.stoplist, texts |-> tk.texts,
                  all_tokens |-> all_tokens,
                  tokens_once |-> TokensOnce(all_tokens)]
    /\ UNCHANGED <<lsaVars, newsVars, notebook, vz, sc, am, rk>>

\* texts = [[word for word in text if word not in tokens_once] for text in texts];
\* tokenized keeps the value texts had before the cell rebinds it
TkRemoveOnce ==
    /\ tk.pc = "tokens_once"
    /\ tk' = [pc |-> "filtered", documents |-> tk.documents,
              stoplist |-> tk.stoplist, tokenized |-> tk.texts,
              all_tokens |-> tk.all_tokens, tokens_once |-> tk.tokens_once,
              texts |-> RemoveOnce(tk.texts, tk.tokens_once)]
    /\ UNCHANGED <<lsaVars, newsVars, notebook, vz, sc, am, rk>>

TkNext == TkTokenize \/ TkTokensOnce \/ TkRemoveOnce

SpecTokenize == TkInit /\ [][TkNext]_vars

----------------------------------------------------------------------------
(* Harness of the ranking: sorted(enumerate(sims), key=...) on every short *)
(* array of similarities, ties and negative values among them.             *)

RkInit ==
    /\ notebook = "none"
    /\ LsaInit
    /\ NewsInit
    /\ vz = HarnessIdle /\ sc = HarnessIdle /\ am = HarnessIdle
    /\ tk = HarnessIdle
    /\ rk \in {[pc |-> "sims", sims |-> x] :
                  x \in SeqsUpTo((-MaxSim)..MaxSim, MaxSims)}

\* sims = sorted(enumerate(sims), key=lambda item: -item[1]); array keeps
\* the value sims had before the cell rebinds it
RkSort ==
    /\ rk.pc = "sims"
    /\ rk' = [pc |-> "sorted", array |-> rk.sims,
              sims |-> SortedBySim(Enumerate(rk.sims))]
    /\ UNCHANGED <<lsaVars, newsVars, notebook, vz, sc, am, tk>>

RkNext == RkSort

SpecRank == RkInit /\ [][RkNext]_vars

----------------------------------------------------------------------------
(* The claims.                                                             *)

\* the artifact files of LSA.ipynb that a later cell reads back
ArtifactFiles == {"deerwester.dict", "deerwester.mm", "model.lsi", "deerwester.index"}

\* C1: both notebooks are a linear pipeline.  Whenever a cell of LSA.ipynb
\* is due, every name it reads has been bound by an earlier cell and every
\* file it opens has been written by an earlier cell; whenever a cell of the
\* 20-newsgroups notebook is due, every name one of its statements reads
\* has been bound by an earlier cell or an earlier statement of the cell.
C1_PipelineOrder ==
    /\ (notebook = "LSA" /\ lsa_pc \in 1..LsaLastCell) =>
          /\ LsaReads(lsa_pc) \subseteq DOMAIN lsa_ns
          /\ LsaFileReads(lsa_pc) \subseteq DOMAIN files
    /\ (notebook = "20-newsgroups" /\ news_pc \in 1..NewsLastCell) =>
          \A ch \in NewsChoices(news_pc), k \in 1..NewsStmts(news_pc) :
              LET before == NewsRun(news_pc, k - 1, news_ns, ch)
              IN  before.ok => NewsReads(news_pc, k) \subseteq DOMAIN before.ns

\* LSA.ipynb has run to its end and the four artifact files were written
\* and read back
C1_Witness ==
    /\ notebook = "LSA"
    /\ lsa_pc = LsaLastCell + 1
    /\ ArtifactFiles \subseteq DOMAIN files
    /\ lsa_ns["index"] = Unpickle(files["deerwester.index"])

\* the number of times w occurs in a list of tokens
Occurrences(tokens, w) == Len(Kept(tokens, [i \in DOMAIN tokens |-> tokens[i] = w]))

\* C2: the dictionary is built once and doc2bow queries leave it as it was
\* built: after any number of queries token2id (and every other field) is
\* what Dictionary(texts) made, a token of a query that the corpus does not
\* hold has no id, and the dictionary of the nine Deerwester documents has
\* its 12 tokens, "interaction" not among them.
C2_DictionaryImmutable ==
    vz.pc \in {"dictionary", "built", "counted", "queried"} =>
        /\ vz.dictionary = Dictionary(vz.texts)
        /\ DOMAIN vz.dictionary.token2id = UNION {Range(vz.texts[i]) : i \in DOMAIN vz.texts}
        /\ vz.texts = DeerwesterTexts =>
              /\ Cardinality(DOMAIN vz.dictionary.token2id) = 12
              /\ "interaction" \notin DOMAIN vz.dictionary.token2id

\* the Deerwester dictionary after the query "human computer interaction"
C2_Witness ==
    /\ vz.pc = "queried"
    /\ vz.texts = DeerwesterTexts
    /\ vz.query = <<"human", "computer", "interaction">>
    /\ Cardinality(DOMAIN vz.dictionary.token2id) = 12

\* bow holds exactly one pair (id, n) per dictionary token that occurs in
\* tokens, n its number of occurrences, in ascending id order
BowIsCounts(bow, tokens, token2id) ==
    /\ \A w \in DOMAIN token2id :
          Occurrences(tokens, w) > 0 =>
              Cardinality({p \in DOMAIN bow.items : bow.items[p][1] = token2id[w]}) = 1
    /\ \A p \in DOMAIN bow.items :
          \E w \in DOMAIN token2id :
              /\ Occurrences(tokens, w) > 0
              /\ bow.items[p] = <<token2id[w], Occurrences(tokens, w)>>
    /\ \A p, q \in DOMAIN bow.items : p < q => bow.items[p][1] < bow.items[q][1]

\* C3: the document-term representation holds occurrence counts.  Entry
\* (i, j) of the count matrix is the number of times vocabulary word j
\* occurs in document i; doc2bow gives one (id, count) pair per dictionary
\* token of the document, ascending by id, and nothing for unknown tokens
\* ("system" counted 2 in the fourth Deerwester document; "human computer
\* interaction" gives [(0, 1), (1, 1)]).
C3_OccurrenceCounts ==
    /\ vz.pc \in {"built", "counted", "queried"} =>
          /\ \A i \in DOMAIN vz.texts :
                BowIsCounts(vz.corpus[i], vz.texts[i], vz.dictionary.token2id)
          /\ vz.texts = DeerwesterTexts =>
                <<vz.dictionary.token2id["system"], 2>> \in Range(vz.corpus[4].items)
    /\ vz.pc \in {"counted", "queried"} =>
          /\ Len(vz.data.X) = Len(vz.texts)
          /\ \A i \in DOMAIN vz.data.X :
                /\ Len(vz.data.X[i]) = Len(vz.data.vocabulary)
                /\ \A j \in DOMAIN vz.data.vocabulary :
                      vz.data.X[i][j] =
                          Occurrences(Split(Lower(Text(vz.texts[i]))), vz.data.vocabulary[j])
    /\ vz.pc = "queried" =>
          /\ BowIsCounts(vz.bow, vz.query, vz.dictionary.token2id)
          /\ (vz.texts = DeerwesterTexts
              /\ vz.query = <<"human", "computer", "interaction">>) =>
                vz.bow.items = <<<<0, 1>>, <<1, 1>>>>

\* a corpus whose count matrix has an entry 2, queried with a word it holds
\* twice in a document
C3_Witness ==
    /\ vz.pc = "queried"
    /\ vz.data.ok
    /\ \E i \in DOMAIN vz.data.X : 2 \in Range(vz.data.X[i])
    /\ vz.query = <<"graph", "graph">>
    /\ vz.bow.items = <<<<vz.dictionary.token2id["graph"], 2>>>>

\* C4: with min_df=5 a non-stop word is a column of the count matrix if and
\* only if its total number of occurrences over all documents is at least 5.
C4_TotalOccurrences ==
    (vz.pc \in {"counted", "queried"} /\ vz.data.ok) =>
        \A w \in UNION {Range(vz.texts[i]) : i \in DOMAIN vz.texts} :
            w \notin EnglishStopWords =>
                (w \in Range(vz.data.vocabulary)
                 <=> SumSeq([i \in DOMAIN vz.texts |-> Occurrences(vz.texts[i], w)]) >= 5)

\* two labellings put the same samples together: each is the other up to a
\* renaming of the labels
SamePartition(a, b) ==
    /\ Len(a) = Len(b)
    /\ \A i, j \in DOMAIN a : (a[i] = a[j]) <=> (b[i] = b[j])

\* C5: for any ground truth and any cluster assignment of the same
\* documents the score lies between 0 and 1, and it is 1 for an assignment
\* that matches the ground truth up to a renaming of the cluster ids.
C5_ScoreBetween0And1 ==
    sc.pc = "scored" =>
        /\ sc.score.den > 0
        /\ 0 <= sc.score.num
        /\ sc.score.num <= sc.score.den
        /\ SamePartition(sc.labels_true, sc.labels_pred) => sc.score.num = sc.score.den

\* C6: each document gets the strongest topic of its row: one label per
\* row of the document-topic matrix, an index within 0..columns-1 whose
\* entry no other entry of the row exceeds, the lowest such index when
\* several entries are largest.
C6_StrongestTopic ==
    am.pc = "done" =>
        /\ Len(am.clusters) = Len(am.doc_vectors)
        /\ \A r \in DOMAIN am.doc_vectors :
              LET row == am.doc_vectors[r]
                  c == am.clusters[r]
              IN  /\ c \in 0..(am.columns - 1)
                  /\ \A k \in 1..am.columns : row[c + 1] >= row[k]
                  /\ \A k \in 1..c : row[k] < row[c + 1]

\* a row whose largest entry is shared by the last two columns
C6_Witness ==
    /\ am.pc = "done"
    /\ Len(am.doc_vectors) = MaxRows
    /\ am.doc_vectors[1] = <<0, 1, 1>>
    /\ am.clusters[1] = 1

\* the model a printed label names
ModelNamed(label) ==
    CASE label \in {"NMF Adjusted Rand: ", "NMF Adjusted Mutual Information: "} -> "nmf"
      [] label \in {"LDA Adjusted Rand: ", "LDA Adjusted Mutual Information: "} -> "lda"
      [] label \in {"pLSA Adjusted Rand: ", "pLSA Adjusted Mutual Information: "} -> "plsa"
      [] label \in {"EnsTop Adjusted Rand: ", "EnsTop Adjusted Mutual Information: "} -> "ens"

\* the names cell 9 binds for a model
ClustersOf(m) ==
    CASE m = "nmf" -> "nmf_clusters" [] m = "lda" -> "lda_clusters"
      [] m = "plsa" -> "plsa_clusters" [] m = "ens" -> "ens_clusters"
DocVectorsOf(m) ==
    CASE m = "nmf" -> "nmf_doc_vectors" [] m = "lda" -> "lda_doc_vectors"
      [] m = "plsa" -> "plsa_doc_vectors" [] m = "ens" -> "ens_doc_vectors"
ModelOf(m) ==
    CASE m = "nmf" -> "nmf_model" [] m = "lda" -> "lda_model"
      [] m = "plsa" -> "plsa_model" [] m = "ens" -> "ens_model"

\* C7: every printed score compares news.target with the cluster vector of
\* the model its label names, document by document: the vector has one
\* entry per document of news.data, entry i being the strongest topic of
\* document i under that model, for the vectors taken from embedding_ as
\* for those taken from transform(data).
C7_ScoresCompareNamedModel ==
    /\ \A m \in {"nmf", "lda", "plsa", "ens"} :
          ClustersOf(m) \in DOMAIN news_ns =>
              /\ Len(news_ns[ClustersOf(m)]) = Len(news_ns["news"].data)
              /\ Len(news_ns[ClustersOf(m)]) = Len(news_ns["news"].target)
              /\ \A i \in DOMAIN news_ns["data"] :
                    LET row == [t \in DOMAIN news_ns[ModelOf(m)].components_ |->
                                   SumSeq([j \in DOMAIN news_ns["data"][i] |->
                                       news_ns["data"][i][j]
                                       * news_ns[ModelOf(m)].components_[t][j]])]
                    IN  /\ news_ns[DocVectorsOf(m)][i] = row
                        /\ \A t \in DOMAIN row :
                              row[t] <= row[news_ns[ClustersOf(m)][i] + 1]
    /\ \A p \in DOMAIN news_out :
          /\ news_out[p].labels_true = news_ns["news"].target
          /\ news_out[p].labels_pred = news_ns[ClustersOf(ModelNamed(news_out[p].label))]
          /\ Len(news_out[p].labels_pred) = Len(news_ns["news"].data)

\* the eight scores are printed, of models whose clusters differ
C7_Witness ==
    /\ notebook = "20-newsgroups"
    /\ news_pc = NewsLastCell + 1
    /\ Len(news_out) = 8
    /\ news_ns["plsa_clusters"] # news_ns["ens_clusters"]
    /\ news_ns["nmf_clusters"] # news_ns["lda_clusters"]

\* C8: every vector the LSI model projects has first been mapped through
\* the TF-IDF model: the corpus the model is trained on, the corpus vectors
\* placed in the similarity index, and the query vector.
C8_TfidfBeforeLsi ==
    notebook = "LSA" =>
        /\ "lsi" \in DOMAIN lsa_ns => lsa_ns["lsi"].trained_on = "tfidf"
        /\ "corpus_lsi" \in DOMAIN lsa_ns =>
              \A d \in DOMAIN lsa_ns["corpus_lsi"].docs :
                  lsa_ns["corpus_lsi"].docs[d].via = "tfidf"
        /\ "index" \in DOMAIN lsa_ns =>
              \A d \in DOMAIN lsa_ns["index"].via : lsa_ns["index"].via[d] = "tfidf"
        /\ "vec_lsi" \in DOMAIN lsa_ns => lsa_ns["vec_lsi"].via = "tfidf"

RecordedSims == <<1000, 995, 1000, 1000, 999, -88, -52, -24, 194>>

\* the cosine of two sparse vectors of the LSI space, in thousandths
Cosine(a, b) ==
    LET coord(v, t) == SumSeq([k \in DOMAIN v.items |->
                           IF v.items[k][1] = t THEN v.items[k][2] ELSE 0])
        dot(v, w) == SumSeq([t \in 1..num_topics |-> coord(v, t - 1) * coord(w, t - 1)])
    IN  RoundDiv((FP \div 10) * dot(a, b),
                 (ISqrt(dot(a, a)) * ISqrt(dot(b, b))) \div 10)

\* C10: the index holds one vector per corpus document (9 documents, 2
\* features); index[vec_lsi] has one value per indexed document, value i
\* being the similarity of the query with corpus document i, and the pairs
\* of enumerate(sims) keep each value with its document number.
C10_IndexByDocument ==
    (notebook = "LSA" /\ "index" \in DOMAIN lsa_ns) =>
        /\ Len(lsa_ns["index"].index) = Len(lsa_ns["corpus"].docs)
        /\ Len(lsa_ns["index"].index) = 9
        /\ lsa_ns["index"].num_features = 2
        /\ \A i \in DOMAIN lsa_ns["index"].index :
              Len(lsa_ns["index"].index[i]) = 2
        /\ "sims" \in DOMAIN lsa_ns =>
              LET doc(i) == LsiApply(lsa_ns["lsi"], lsa_ns["corpus"].docs[i])
                  near(x, y) == Abs(x - y) <= 2
                  pairs == IF lsa_pc <= LsaLastCell THEN Enumerate(lsa_ns["sims"])
                           ELSE lsa_ns["sims"]
              IN  /\ Len(pairs) = 9
                  /\ {pairs[p][1] : p \in DOMAIN pairs} = 0..8
                  /\ \A p \in DOMAIN pairs :
                        /\ near(pairs[p][2], Cosine(lsa_ns["vec_lsi"], doc(pairs[p][1] + 1)))
                        /\ near(pairs[p][2], RecordedSims[pairs[p][1] + 1])

\* the query was answered and its values paired with the document numbers
C10_Witness ==
    /\ notebook = "LSA"
    /\ lsa_pc = LsaLastCell
    /\ Len(lsa_ns["index"].index) = 9
    /\ Len(lsa_ns["sims"]) = 9
    /\ lsa_out[Len(lsa_out)] = <<37, Enumerate(lsa_ns["sims"])>>

\* C11: the final ranking is the pairs of enumerate(sims) rearranged,
\* largest similarity first: it has one pair per document, every document
\* number appears exactly once and with its own similarity, and the
\* similarities never increase along the list.
C11_RankingSorted ==
    rk.pc = "sorted" =>
        /\ Len(rk.sims) = Len(rk.array)
        /\ \A d \in DOMAIN rk.array :
              /\ Cardinality({p \in DOMAIN rk.sims : rk.sims[p][1] = d - 1}) = 1
              /\ <<d - 1, rk.array[d]>> \in Range(rk.sims)
        /\ \A p, q \in DOMAIN rk.sims :
              p < q => rk.sims[p][2] >= rk.sims[q][2]

\* a ranking that had to move documents: the largest similarity was last,
\* and two documents tie
C11_Witness ==
    /\ rk.pc = "sorted"
    /\ rk.array = <<0, -1, 0, 1>>
    /\ rk.sims = <<<<3, 1>>, <<0, 0>>, <<2, 0>>, <<1, -1>>>>

\* out is inp restricted to the positions of P, in the order of inp
IsSelection(out, inp, P) ==
    /\ Len(out) = Cardinality(P)
    /\ \A k \in P : out[1 + Cardinality({j \in P : j < k})] = inp[k]

\* the number of times w occurs in the whole corpus
CorpusCount(txts, w) == SumSeq([i \in DOMAIN txts |-> Occurrences(txts[i], w)])

\* C12: words that appear only once are removed.  After the tokens_once
\* filter there is one text per text before, in the same order; each is
\* the text before restricted to the tokens that occur at least twice in
\* the whole corpus, in their order; such a token keeps all its
\* occurrences, and every token left occurs at least twice.  For the
\* documents of the notebook the first text is human, interface, computer
\* and the sixth is trees alone.
C12_OnceRemoved ==
    tk.pc = "filtered" =>
        /\ Len(tk.texts) = Len(tk.tokenized)
        /\ \A i \in DOMAIN tk.tokenized :
              IsSelection(tk.texts[i], tk.tokenized[i],
                          {k \in DOMAIN tk.tokenized[i] :
                              CorpusCount(tk.tokenized, tk.tokenized[i][k]) >= 2})
        /\ \A i \in DOMAIN tk.texts : \A k \in DOMAIN tk.texts[i] :
              CorpusCount(tk.texts, tk.texts[i][k]) >= 2
        /\ \A w \in UNION {Range(tk.tokenized[i]) : i \in DOMAIN tk.tokenized} :
              CorpusCount(tk.tokenized, w) >= 2 =>
                  CorpusCount(tk.texts, w) = CorpusCount(tk.tokenized, w)
        /\ tk.documents = DeerwesterDocuments =>
              /\ Len(tk.texts) = 9
              /\ tk.texts[1] = <<"human", "interface", "computer">>
              /\ tk.texts[6] = <<"trees">>

\* a word said twice in one document only is kept, and a document whose
\* words all appear once is left empty, not dropped
C12_Witness ==
    /\ tk.pc = "filtered"
    /\ tk.tokenized = <<<<"graph", "graph", "iv">>, <<"survey", "trees">>>>
    /\ tk.tokens_once = {"iv", "survey", "trees"}
    /\ tk.texts = <<<<"graph", "graph">>, <<>>>>

\* the stop list as the notebook writes it
SevenStopWords == {"for", "a", "of", "the", "and", "to", "in"}

\* texts as cell 5 binds it: cell 9 rebinds the name
TextsOfCell5 == IF tk.pc = "filtered" THEN tk.tokenized ELSE tk.texts

\* C13: common words are removed and documents are tokenized.  There is
\* one text per document; text i is the lower-cased words of document i
\* between blanks, restricted to the words that are not one of for, a, of,
\* the, and, to, in after lower-casing, in their order and with their
\* repetitions; no token is a stop word, a blank, or a word with an
\* upper-case letter.  For the documents of the notebook "A survey of user
\* opinion of computer system response time" loses A and both of, and "The
\* EPS user interface management system" loses The and has eps.
C13_TokenizedWithoutStopWords ==
    tk.pc \in {"texts", "tokens_once", "filtered"} =>
        /\ tk.stoplist = SevenStopWords
        /\ Len(TextsOfCell5) = Len(tk.documents)
        /\ \A i \in DOMAIN tk.documents :
              LET doc == tk.documents[i]
                  lowered == [k \in DOMAIN doc |-> LowerWord(doc[k])]
              IN  /\ IsSelection(TextsOfCell5[i], lowered,
                                 {k \in DOMAIN doc :
                                     doc[k] # " " /\ lowered[k] \notin SevenStopWords})
                  /\ \A k \in DOMAIN TextsOfCell5[i] :
                        /\ TextsOfCell5[i][k] \notin SevenStopWords \cup {" "}
                        /\ TextsOfCell5[i][k] \notin DOMAIN LowerTable
                        /\ TextsOfCell5[i][k] \in Range(Alphabet)
        /\ tk.documents = DeerwesterDocuments =>
              /\ TextsOfCell5[2] = <<"survey", "user", "opinion", "computer",
                                     "system", "response", "time">>
              /\ TextsOfCell5[3] = <<"eps", "user", "interface", "management",
                                     "system">>

\* stop words in upper and lower case are removed, Graph and IV are
\* lower-cased, and graph said twice stays twice
C13_Witness ==
    /\ tk.pc = "texts"
    /\ tk.documents = << Text(<<"The", "Graph", "of", "trees">>),
                         <<" ">> \o Text(<<"A", "graph", "graph", "IV">>) \o <<" ">> >>
    /\ tk.texts = <<<<"graph", "trees">>, <<"graph", "graph", "iv">>>>

\* what cell c printed first
PrintedBy(c) == lsa_out[CHOOSE p \in DOMAIN lsa_out :
                           /\ lsa_out[p][1] = c
                           /\ \A q \in 1..(p - 1) : lsa_out[q][1] # c][2]

\* C14: the corpus read back from deerwester.mm is the corpus that was
\* serialized.  Against the list cell 15 printed, the loaded corpus has
\* the same 9 documents in the same order, each with the same ids in the
\* same order and each count as the float of the same value (1 read as
\* 1.0, 2 as 2.0); it reports 9 documents, 12 features and 28 non-zero
\* entries, and the document with the single entry (9, 1) is still the
\* sixth.
C14_MmRoundTrip ==
    (notebook = "LSA" /\ "corpus" \in DOMAIN lsa_ns
     /\ lsa_ns["corpus"].kind = "MmCorpus") =>
        LET saved == PrintedBy(15)
            loaded == lsa_ns["corpus"].docs
        IN  /\ Len(saved) = 9
            /\ Len(loaded) = Len(saved)
            /\ \A d \in DOMAIN saved :
                  /\ loaded[d].dtype = "float"
                  /\ Len(loaded[d].items) = Len(saved[d])
                  /\ \A k \in DOMAIN saved[d] :
                        /\ loaded[d].items[k][1] = saved[d][k][1]
                        /\ loaded[d].items[k][2] = saved[d][k][2] * FP
            /\ loaded[6].items = <<<<9, FP>>>>
            /\ <<5, 2 * FP>> \in Range(loaded[4].items)
            /\ lsa_ns["corpus"].num_docs = 9
            /\ lsa_ns["corpus"].num_terms = 12
            /\ lsa_ns["corpus"].num_nnz = 28
            /\ SumSeq([d \in DOMAIN loaded |-> Len(loaded[d].items)]) = 28

\* the loaded corpus was printed: MmCorpus(9 documents, 12 features, 28
\* non-zero entries)
C14_Witness ==
    /\ notebook = "LSA"
    /\ lsa_pc = 20
    /\ lsa_ns["corpus"].kind = "MmCorpus"
    /\ PrintedBy(17) = [d \in DOMAIN lsa_ns["corpus"].docs |->
                            lsa_ns["corpus"].docs[d].items]
    /\ PrintedBy(19) = [MmCorpus |-> <<9, 12, 28>>]

====
